---- MODULE Spec2Model ----
(***************************************************************************)
(* SoroSusu: the circle lifecycle contract of src/src/lib.rs.             *)
(*                                                                         *)
(* The contract's instance storage is the variable `storage`: the         *)
(* CircleCount entry and one Circle record per id.  Every entry point is   *)
(* an operator from (storage, invoker, arguments) to the outcome of the    *)
(* call: the error it panics with (or "Ok"), the value it returns and the  *)
(* storage it leaves, built in the order the code reads, checks and        *)
(* writes.  The actions apply these operators.  `payouts` and `refunds`    *)
(* are history variables: the successful process_payout calls per member   *)
(* and the amounts withdraw_pro_rata returned to each member; `left` is    *)
(* the number of calls that change anything the run may still make.        *)
(***************************************************************************)
EXTENDS Integers, Sequences, FiniteSets, TLC

VARIABLES storage, payouts, refunds, left

vars == <<storage, payouts, refunds, left>>

\* ------------------------------------------------------------------ bounds

\* identities that call the contract
NumAddr == 2
\* calls in a run that follows one circle, its create_circle included
MaxOps == 8
\* circles, and calls, in a run that follows the registry
MaxCircles == 2
MaxRegistryOps == 3
\* calls in a run that follows a circle filling up to MAX_MEMBERS
MaxCapacityOps == 4

Addresses == 1..NumAddr
\* contribution is an i128 and create_circle takes any value of it: a
\* negative one, zero and a positive one.  Amounts are exact integers; sums
\* near the limits of i128 are not modelled.
Contributions == {-1, 0, 2}

\* ------------------------------------------------------------- constants

MAX_MEMBERS == 50

\* ------------------------------------------------------------ Vec helpers

\* Vec::contains
Contains(v, x) == \E i \in 1..Len(v) : v[i] = x

\* the loop of process_payout / withdraw_pro_rata: the first index holding x
\* (0 stands for None)
IndexOf(v, x) ==
    IF Contains(v, x)
    THEN CHOOSE i \in 1..Len(v) : v[i] = x /\ \A j \in 1..(i - 1) : v[j] # x
    ELSE 0

\* env.prng().shuffle(&mut v): any reordering of v can come out
Shuffles(v) == {[i \in 1..Len(v) |-> v[p[i]]] : p \in Permutations(1..Len(v))}

\* ------------------------------------------------------- call outcomes

Unit == <<>>

\* a call that returned
Return(st, value) == [err |-> "Ok", ret |-> value, storage |-> st]

\* panic_with_error!: the call stops with the storage as written so far
Panic(st, e) == [err |-> e, ret |-> Unit, storage |-> st]

\* ----------------------------------------------------------------- storage

HasCircle(st, id) == id \in DOMAIN st.Circle

\* write_circle storing the record under one key shared by all circles
write_circle_SharedKey(st, id, circle) ==
    [st EXCEPT !.Circle = [k \in (DOMAIN st.Circle) \cup {id} |-> circle]]

write_circle(st, id, circle) ==
    [st EXCEPT !.Circle = [k \in (DOMAIN st.Circle) \cup {id} |->
                              IF k = id THEN circle ELSE st.Circle[k]]]

\* next_circle_id that does not store the id it hands out
next_circle_id_NotStored(st) == st

\* the storage after next_circle_id; the id it returns is its CircleCount
next_circle_id(st) == [st EXCEPT !.CircleCount = st.CircleCount + 1]

\* ------------------------------------------------------------ entry points
\* Each entry point is preceded by variants of it with one fault each
\* (name_Fault); the properties below are shown to tell them from the code.

create_circle(st, invoker, contribution, is_random_queue) ==
    LET st1 == next_circle_id(st)
        id == st1.CircleCount
        circle == [admin |-> invoker,
                   contribution |-> contribution,
                   members |-> <<>>,
                   is_random_queue |-> is_random_queue,
                   payout_queue |-> <<>>,
                   has_received_payout |-> <<>>,
                   cycle_number |-> 1,
                   current_payout_index |-> 0,
                   total_volume_distributed |-> 0,
                   is_dissolved |-> FALSE,
                   dissolution_votes |-> <<>>,
                   contributions_paid |-> <<>>]
    IN Return(write_circle(st1, id, circle), <<id>>)


\* join_circle pushing `true` for the new member's payout flag
join_circle_FlagSet(st, invoker, circle_id) ==
    IF ~HasCircle(st, circle_id) THEN Panic(st, "CircleNotFound")
    ELSE LET circle == st.Circle[circle_id] IN
    IF circle.is_dissolved THEN Panic(st, "AlreadyDissolved")
    ELSE IF Contains(circle.members, invoker) THEN Panic(st, "AlreadyJoined")
    ELSE IF Len(circle.members) >= MAX_MEMBERS THEN Panic(st, "MaxMembersReached")
    ELSE Return(write_circle(st, circle_id,
                    [circle EXCEPT
                        !.members = Append(@, invoker),
                        !.has_received_payout = Append(@, TRUE),
                        !.contributions_paid = Append(@, circle.contribution)]),
                Unit)

\* join_circle putting the new member in front of the others
join_circle_PushFront(st, invoker, circle_id) ==
    IF ~HasCircle(st, circle_id) THEN Panic(st, "CircleNotFound")
    ELSE LET circle == st.Circle[circle_id] IN
    IF circle.is_dissolved THEN Panic(st, "AlreadyDissolved")
    ELSE IF Contains(circle.members, invoker) THEN Panic(st, "AlreadyJoined")
    ELSE IF Len(circle.members) >= MAX_MEMBERS THEN Panic(st, "MaxMembersReached")
    ELSE Return(write_circle(st, circle_id,
                    [circle EXCEPT
                        !.members = <<invoker>> \o @,
                        !.has_received_payout = <<FALSE>> \o @,
                        !.contributions_paid = <<circle.contribution>> \o @]),
                Unit)

\* join_circle without the is_dissolved check
join_circle_NoDissolvedCheck(st, invoker, circle_id) ==
    IF ~HasCircle(st, circle_id) THEN Panic(st, "CircleNotFound")
    ELSE LET circle == st.Circle[circle_id] IN
    IF Contains(circle.members, invoker) THEN Panic(st, "AlreadyJoined")
    ELSE IF Len(circle.members) >= MAX_MEMBERS THEN Panic(st, "MaxMembersReached")
    ELSE Return(write_circle(st, circle_id,
                    [circle EXCEPT
                        !.members = Append(@, invoker),
                        !.has_received_payout = Append(@, FALSE),
                        !.contributions_paid = Append(@, circle.contribution)]),
                Unit)

\* join_circle without the AlreadyJoined check
join_circle_NoJoinedCheck(st, invoker, circle_id) ==
    IF ~HasCircle(st, circle_id) THEN Panic(st, "CircleNotFound")
    ELSE LET circle == st.Circle[circle_id] IN
    IF circle.is_dissolved THEN Panic(st, "AlreadyDissolved")
    ELSE IF Len(circle.members) >= MAX_MEMBERS THEN Panic(st, "MaxMembersReached")
    ELSE Return(write_circle(st, circle_id,
                    [circle EXCEPT
                        !.members = Append(@, invoker),
                        !.has_received_payout = Append(@, FALSE),
                        !.contributions_paid = Append(@, circle.contribution)]),
                Unit)

\* join_circle refusing only a circle with more than MAX_MEMBERS members
join_circle_OffByOne(st, invoker, circle_id) ==
    IF ~HasCircle(st, circle_id) THEN Panic(st, "CircleNotFound")
    ELSE LET circle == st.Circle[circle_id] IN
    IF circle.is_dissolved THEN Panic(st, "AlreadyDissolved")
    ELSE IF Contains(circle.members, invoker) THEN Panic(st, "AlreadyJoined")
    ELSE IF Len(circle.members) > MAX_MEMBERS THEN Panic(st, "MaxMembersReached")
    ELSE Return(write_circle(st, circle_id,
                    [circle EXCEPT
                        !.members = Append(@, invoker),
                        !.has_received_payout = Append(@, FALSE),
                        !.contributions_paid = Append(@, circle.contribution)]),
                Unit)

\* join_circle crediting the new member with twice the contribution
join_circle_DoubleStake(st, invoker, circle_id) ==
    IF ~HasCircle(st, circle_id) THEN Panic(st, "CircleNotFound")
    ELSE LET circle == st.Circle[circle_id] IN
    IF circle.is_dissolved THEN Panic(st, "AlreadyDissolved")
    ELSE IF Contains(circle.members, invoker) THEN Panic(st, "AlreadyJoined")
    ELSE IF Len(circle.members) >= MAX_MEMBERS THEN Panic(st, "MaxMembersReached")
    ELSE Return(write_circle(st, circle_id,
                    [circle EXCEPT
                        !.members = Append(@, invoker),
                        !.has_received_payout = Append(@, FALSE),
                        !.contributions_paid = Append(@, 2 * circle.contribution)]),
                Unit)

join_circle(st, invoker, circle_id) ==
    IF ~HasCircle(st, circle_id) THEN Panic(st, "CircleNotFound")
    ELSE LET circle == st.Circle[circle_id] IN
    IF circle.is_dissolved THEN Panic(st, "AlreadyDissolved")
    ELSE IF Contains(circle.members, invoker) THEN Panic(st, "AlreadyJoined")
    ELSE IF Len(circle.members) >= MAX_MEMBERS THEN Panic(st, "MaxMembersReached")
    ELSE LET joined ==
                 [circle EXCEPT
                     !.members = Append(@, invoker),
                     !.has_received_payout = Append(@, FALSE),
                     !.contributions_paid = Append(@, circle.contribution)]
         IN Return(write_circle(st, circle_id, joined), Unit)


\* finalize_circle with the two queue policies swapped
finalize_circle_Swapped(st, invoker, circle_id, shuffled) ==
    IF ~HasCircle(st, circle_id) THEN Panic(st, "CircleNotFound")
    ELSE LET circle == st.Circle[circle_id] IN
    IF invoker # circle.admin THEN Panic(st, "Unauthorized")
    ELSE IF circle.is_dissolved THEN Panic(st, "AlreadyDissolved")
    ELSE IF circle.payout_queue # <<>> THEN Return(st, Unit)
    ELSE Return(write_circle(st, circle_id,
                    [circle EXCEPT
                        !.payout_queue = IF circle.is_random_queue
                                         THEN circle.members
                                         ELSE shuffled]),
                Unit)

\* finalize_circle without the early return on a queue already set
finalize_circle_Recompute(st, invoker, circle_id, shuffled) ==
    IF ~HasCircle(st, circle_id) THEN Panic(st, "CircleNotFound")
    ELSE LET circle == st.Circle[circle_id] IN
    IF invoker # circle.admin THEN Panic(st, "Unauthorized")
    ELSE IF circle.is_dissolved THEN Panic(st, "AlreadyDissolved")
    ELSE Return(write_circle(st, circle_id,
                    [circle EXCEPT
                        !.payout_queue = IF circle.is_random_queue
                                         THEN shuffled
                                         ELSE circle.members]),
                Unit)

\* shuffled is what env.prng().shuffle makes of members
finalize_circle(st, invoker, circle_id, shuffled) ==
    IF ~HasCircle(st, circle_id) THEN Panic(st, "CircleNotFound")
    ELSE LET circle == st.Circle[circle_id] IN
    IF invoker # circle.admin THEN Panic(st, "Unauthorized")
    ELSE IF circle.is_dissolved THEN Panic(st, "AlreadyDissolved")
    ELSE IF circle.payout_queue # <<>> THEN Return(st, Unit)
    ELSE LET queued ==
                 [circle EXCEPT
                     !.payout_queue = IF circle.is_random_queue
                                      THEN shuffled
                                      ELSE circle.members]
         IN Return(write_circle(st, circle_id, queued), Unit)


\* process_payout without the has_received_payout check
process_payout_NoPaidCheck(st, invoker, circle_id, recipient) ==
    IF ~HasCircle(st, circle_id) THEN Panic(st, "CircleNotFound")
    ELSE LET circle == st.Circle[circle_id] IN
    IF invoker # circle.admin THEN Panic(st, "Unauthorized")
    ELSE IF circle.is_dissolved THEN Panic(st, "AlreadyDissolved")
    ELSE LET i == IndexOf(circle.members, recipient) IN
    IF i = 0 THEN Panic(st, "NotMember")
    ELSE Return(write_circle(st, circle_id,
                    [circle EXCEPT
                        !.has_received_payout[i] = TRUE,
                        !.current_payout_index = @ + 1,
                        !.total_volume_distributed = @ + circle.contribution]),
                Unit)

\* process_payout assigning the contribution to the total instead of adding it
process_payout_AssignTotal(st, invoker, circle_id, recipient) ==
    IF ~HasCircle(st, circle_id) THEN Panic(st, "CircleNotFound")
    ELSE LET circle == st.Circle[circle_id] IN
    IF invoker # circle.admin THEN Panic(st, "Unauthorized")
    ELSE IF circle.is_dissolved THEN Panic(st, "AlreadyDissolved")
    ELSE LET i == IndexOf(circle.members, recipient) IN
    IF i = 0 THEN Panic(st, "NotMember")
    ELSE IF circle.has_received_payout[i] THEN Panic(st, "Unauthorized")
    ELSE Return(write_circle(st, circle_id,
                    [circle EXCEPT
                        !.has_received_payout[i] = TRUE,
                        !.current_payout_index = @ + 1,
                        !.total_volume_distributed = circle.contribution]),
                Unit)

\* process_payout without the is_dissolved check
process_payout_NoDissolvedCheck(st, invoker, circle_id, recipient) ==
    IF ~HasCircle(st, circle_id) THEN Panic(st, "CircleNotFound")
    ELSE LET circle == st.Circle[circle_id] IN
    IF invoker # circle.admin THEN Panic(st, "Unauthorized")
    ELSE LET i == IndexOf(circle.members, recipient) IN
    IF i = 0 THEN Panic(st, "NotMember")
    ELSE IF circle.has_received_payout[i] THEN Panic(st, "Unauthorized")
    ELSE Return(write_circle(st, circle_id,
                    [circle EXCEPT
                        !.has_received_payout[i] = TRUE,
                        !.current_payout_index = @ + 1,
                        !.total_volume_distributed = @ + circle.contribution]),
                Unit)

\* process_payout that pays only the member at current_payout_index of the
\* payout queue
process_payout_QueueHead(st, invoker, circle_id, recipient) ==
    IF ~HasCircle(st, circle_id) THEN Panic(st, "CircleNotFound")
    ELSE LET circle == st.Circle[circle_id] IN
    IF invoker # circle.admin THEN Panic(st, "Unauthorized")
    ELSE IF circle.is_dissolved THEN Panic(st, "AlreadyDissolved")
    ELSE LET i == IndexOf(circle.members, recipient) IN
    IF i = 0 THEN Panic(st, "NotMember")
    ELSE IF circle.has_received_payout[i] THEN Panic(st, "Unauthorized")
    ELSE IF \/ circle.current_payout_index + 1 > Len(circle.payout_queue)
            \/ circle.payout_queue[circle.current_payout_index + 1] # recipient
         THEN Panic(st, "Unauthorized")
    ELSE Return(write_circle(st, circle_id,
                    [circle EXCEPT
                        !.has_received_payout[i] = TRUE,
                        !.current_payout_index = @ + 1,
                        !.total_volume_distributed = @ + circle.contribution]),
                Unit)

process_payout(st, invoker, circle_id, recipient) ==
    IF ~HasCircle(st, circle_id) THEN Panic(st, "CircleNotFound")
    ELSE LET circle == st.Circle[circle_id] IN
    IF invoker # circle.admin THEN Panic(st, "Unauthorized")
    ELSE IF circle.is_dissolved THEN Panic(st, "AlreadyDissolved")
    ELSE LET i == IndexOf(circle.members, recipient) IN
    IF i = 0 THEN Panic(st, "NotMember")
    ELSE IF circle.has_received_payout[i] THEN Panic(st, "Unauthorized")
    ELSE LET paid ==
                 [circle EXCEPT
                     !.has_received_payout[i] = TRUE,
                     !.current_payout_index = @ + 1,
                     !.total_volume_distributed = @ + circle.contribution]
         IN Return(write_circle(st, circle_id, paid), Unit)

propose_dissolution(st, invoker, circle_id) ==
    IF ~HasCircle(st, circle_id) THEN Panic(st, "CircleNotFound")
    ELSE LET circle == st.Circle[circle_id] IN
    IF circle.is_dissolved THEN Panic(st, "AlreadyDissolved")
    ELSE IF ~Contains(circle.members, invoker) THEN Panic(st, "NotMember")
    ELSE LET proposed ==
                 IF ~Contains(circle.dissolution_votes, invoker)
                 THEN [circle EXCEPT !.dissolution_votes = Append(@, invoker)]
                 ELSE circle
         IN Return(write_circle(st, circle_id, proposed), Unit)


\* vote_dissolve dissolving on a tie (>= for >)
vote_dissolve_Tie(st, invoker, circle_id) ==
    IF ~HasCircle(st, circle_id) THEN Panic(st, "CircleNotFound")
    ELSE LET circle == st.Circle[circle_id] IN
    IF circle.is_dissolved THEN Panic(st, "AlreadyDissolved")
    ELSE IF ~Contains(circle.members, invoker) THEN Panic(st, "NotMember")
    ELSE IF Contains(circle.dissolution_votes, invoker) THEN Panic(st, "AlreadyVoted")
    ELSE LET voted == [circle EXCEPT !.dissolution_votes = Append(@, invoker)]
         IN Return(write_circle(st, circle_id,
                       IF Len(voted.dissolution_votes) * 2 >= Len(voted.members)
                       THEN [voted EXCEPT !.is_dissolved = TRUE]
                       ELSE voted),
                   Unit)

\* vote_dissolve recording the vote before it checks for a repeated one
vote_dissolve_LateVotedCheck(st, invoker, circle_id) ==
    IF ~HasCircle(st, circle_id) THEN Panic(st, "CircleNotFound")
    ELSE LET circle == st.Circle[circle_id] IN
    IF circle.is_dissolved THEN Panic(st, "AlreadyDissolved")
    ELSE IF ~Contains(circle.members, invoker) THEN Panic(st, "NotMember")
    ELSE LET voted == [circle EXCEPT !.dissolution_votes = Append(@, invoker)]
             written == write_circle(st, circle_id, voted)
         IN IF Contains(circle.dissolution_votes, invoker)
            THEN Panic(written, "AlreadyVoted")
            ELSE Return(write_circle(st, circle_id,
                            IF Len(voted.dissolution_votes) * 2 > Len(voted.members)
                            THEN [voted EXCEPT !.is_dissolved = TRUE]
                            ELSE voted),
                        Unit)

vote_dissolve(st, invoker, circle_id) ==
    IF ~HasCircle(st, circle_id) THEN Panic(st, "CircleNotFound")
    ELSE LET circle == st.Circle[circle_id] IN
    IF circle.is_dissolved THEN Panic(st, "AlreadyDissolved")
    ELSE IF ~Contains(circle.members, invoker) THEN Panic(st, "NotMember")
    ELSE IF Contains(circle.dissolution_votes, invoker) THEN Panic(st, "AlreadyVoted")
    ELSE LET voted == [circle EXCEPT !.dissolution_votes = Append(@, invoker)]
             total_members == Len(voted.members)
             votes == Len(voted.dissolution_votes)
             decided == IF votes * 2 > total_members
                        THEN [voted EXCEPT !.is_dissolved = TRUE]
                        ELSE voted
         IN Return(write_circle(st, circle_id, decided), Unit)


\* withdraw_pro_rata that returns the refund without zeroing contributions_paid
withdraw_pro_rata_NoZero(st, invoker, circle_id) ==
    IF ~HasCircle(st, circle_id) THEN Panic(st, "CircleNotFound")
    ELSE LET circle == st.Circle[circle_id] IN
    IF ~circle.is_dissolved THEN Panic(st, "NotDissolved")
    ELSE LET i == IndexOf(circle.members, invoker) IN
    IF i = 0 THEN Panic(st, "NotMember")
    ELSE Return(st, <<circle.contributions_paid[i]
                      - (IF circle.has_received_payout[i]
                         THEN circle.contribution
                         ELSE 0)>>)

\* withdraw_pro_rata that does not deduct the payout a member received
withdraw_pro_rata_PayoutKept(st, invoker, circle_id) ==
    IF ~HasCircle(st, circle_id) THEN Panic(st, "CircleNotFound")
    ELSE LET circle == st.Circle[circle_id] IN
    IF ~circle.is_dissolved THEN Panic(st, "NotDissolved")
    ELSE LET i == IndexOf(circle.members, invoker) IN
    IF i = 0 THEN Panic(st, "NotMember")
    ELSE LET refundable == circle.contributions_paid[i]
         IN IF refundable > 0
            THEN Return(write_circle(st, circle_id,
                            [circle EXCEPT !.contributions_paid[i] = 0]),
                        <<refundable>>)
            ELSE Return(st, <<refundable>>)

withdraw_pro_rata(st, invoker, circle_id) ==
    IF ~HasCircle(st, circle_id) THEN Panic(st, "CircleNotFound")
    ELSE LET circle == st.Circle[circle_id] IN
    IF ~circle.is_dissolved THEN Panic(st, "NotDissolved")
    ELSE LET i == IndexOf(circle.members, invoker) IN
    IF i = 0 THEN Panic(st, "NotMember")
    ELSE LET contributed == circle.contributions_paid[i]
             received == IF circle.has_received_payout[i]
                         THEN circle.contribution
                         ELSE 0
             refundable == contributed - received
         IN IF refundable > 0
            THEN Return(write_circle(st, circle_id,
                            [circle EXCEPT !.contributions_paid[i] = 0]),
                        <<refundable>>)
            ELSE Return(st, <<refundable>>)

get_circle(st, circle_id) ==
    IF ~HasCircle(st, circle_id) THEN Panic(st, "CircleNotFound")
    ELSE Return(st, <<st.Circle[circle_id]>>)

\* ------------------------------------------------------------------ state

EmptyStorage == [CircleCount |-> 0, Circle |-> <<>>]

\* ids a call can name: the circles that exist and one that does not
Ids == 1..(storage.CircleCount + 1)

\* a run is cut after the calls it was given
Budget == left > 0

\* a call that changes the storage or returns an amount uses one up; a call
\* that left everything as it was does not
Tally ==
    left' = IF <<storage, payouts, refunds>>' # <<storage, payouts, refunds>>
            THEN left - 1
            ELSE left

\* ---------------------------------------------------------------- actions

Create(invoker, contribution, is_random_queue) ==
    LET r == create_circle(storage, invoker, contribution, is_random_queue) IN
        /\ Budget
        /\ storage.CircleCount < MaxCircles
        /\ storage' = r.storage
        /\ payouts' = Append(payouts, [a \in Addresses |-> 0])
        /\ refunds' = Append(refunds, [a \in Addresses |-> <<>>])
        /\ Tally

Join(invoker, id) ==
    /\ Budget
    /\ storage' = join_circle(storage, invoker, id).storage
    /\ UNCHANGED <<payouts, refunds>>
    /\ Tally

\* env.prng() is drawn from only on the path that shuffles
Finalize(invoker, id) ==
    /\ Budget
    /\ \E shuffled \in (IF HasCircle(storage, id) /\ storage.Circle[id].is_random_queue
                        THEN Shuffles(storage.Circle[id].members)
                        ELSE {<<>>}) :
          storage' = finalize_circle(storage, invoker, id, shuffled).storage
    /\ UNCHANGED <<payouts, refunds>>
    /\ Tally

Payout(invoker, id, recipient) ==
    LET r == process_payout(storage, invoker, id, recipient) IN
        /\ Budget
        /\ storage' = r.storage
        /\ payouts' = IF r.err = "Ok"
                      THEN [payouts EXCEPT ![id][recipient] = @ + 1]
                      ELSE payouts
        /\ UNCHANGED refunds
        /\ Tally

Propose(invoker, id) ==
    /\ Budget
    /\ storage' = propose_dissolution(storage, invoker, id).storage
    /\ UNCHANGED <<payouts, refunds>>
    /\ Tally

Vote(invoker, id) ==
    /\ Budget
    /\ storage' = vote_dissolve(storage, invoker, id).storage
    /\ UNCHANGED <<payouts, refunds>>
    /\ Tally

Withdraw(invoker, id) ==
    LET r == withdraw_pro_rata(storage, invoker, id) IN
        /\ Budget
        /\ storage' = r.storage
        /\ refunds' = IF r.err = "Ok"
                      THEN [refunds EXCEPT ![id][invoker] = Append(@, r.ret[1])]
                      ELSE refunds
        /\ UNCHANGED payouts
        /\ Tally

Get(id) ==
    /\ Budget
    /\ storage' = get_circle(storage, id).storage
    /\ UNCHANGED <<payouts, refunds>>
    /\ Tally

\* One circle.  Circles do not interact, so the life of a circle is followed
\* from the state its create_circle call leaves, for any invoker, contribution
\* and queue policy, in runs of at most MaxOps calls, that one included.
Init ==
    \E a \in Addresses, c \in Contributions, q \in BOOLEAN :
        /\ storage = create_circle(EmptyStorage, a, c, q).storage
        /\ payouts = <<[m \in Addresses |-> 0]>>
        /\ refunds = <<[m \in Addresses |-> <<>>]>>
        /\ left = MaxOps - 1

Next ==
    \/ \E a \in Addresses, id \in Ids : Join(a, id)
    \/ \E a \in Addresses, id \in Ids : Finalize(a, id)
    \/ \E a \in Addresses, id \in Ids, r \in Addresses : Payout(a, id, r)
    \/ \E a \in Addresses, id \in Ids : Propose(a, id)
    \/ \E a \in Addresses, id \in Ids : Vote(a, id)
    \/ \E a \in Addresses, id \in Ids : Withdraw(a, id)
    \/ \E id \in Ids : Get(id)

Spec == Init /\ [][Next]_vars

\* The registry: from the empty storage of a fresh contract, up to MaxCircles
\* circles are created and called in runs of at most MaxRegistryOps calls.
InitRegistry ==
    /\ storage = EmptyStorage
    /\ payouts = <<>>
    /\ refunds = <<>>
    /\ left = MaxRegistryOps

NextRegistry ==
    \/ \E a \in Addresses, c \in Contributions, q \in BOOLEAN : Create(a, c, q)
    \/ Next

SpecRegistry == InitRegistry /\ [][NextRegistry]_vars

\* A circle at its capacity.  MAX_MEMBERS - 1 identities other than Addresses,
\* the crowd, have joined circle 1, whose admin is the first of them, and the
\* first `voted` of them have called propose_dissolution; the state is built
\* by those calls.  From there the crowd's first and last members and the
\* Addresses call the contract, in runs of at most MaxCapacityOps calls.  The
\* queue policy is the one that draws no shuffle.
Crowd == [i \in 1..(MAX_MEMBERS - 1) |-> NumAddr + i]

Identities == Addresses \cup {Crowd[i] : i \in DOMAIN Crowd}

CapacityCallers == Addresses \cup {Crowd[1], Crowd[Len(Crowd)]}

RECURSIVE JoinAll(_, _, _, _)
\* the storage after who[lo], ..., who[hi] have called join_circle on circle
\* 1, in that order, each call succeeding
JoinAll(st, who, lo, hi) ==
    IF lo > hi THEN st
    ELSE LET r == join_circle(st, who[lo], 1) IN
         IF r.err = "Ok" THEN JoinAll(r.storage, who, lo + 1, hi) ELSE st

RECURSIVE ProposeAll(_, _, _, _)
\* the storage after who[lo], ..., who[hi] have called propose_dissolution on
\* circle 1, in that order, each call succeeding
ProposeAll(st, who, lo, hi) ==
    IF lo > hi THEN st
    ELSE LET r == propose_dissolution(st, who[lo], 1) IN
         IF r.err = "Ok" THEN ProposeAll(r.storage, who, lo + 1, hi) ELSE st

InitCapacity ==
    \E c \in Contributions,
       voted \in {0, (MAX_MEMBERS - 2) \div 2, MAX_MEMBERS - 2} :
        /\ storage = ProposeAll(
                         JoinAll(create_circle(EmptyStorage, Crowd[1], c, FALSE).storage,
                                 Crowd, 1, Len(Crowd)),
                         Crowd, 1, voted)
        /\ payouts = <<[m \in Identities |-> 0]>>
        /\ refunds = <<[m \in Identities |-> <<>>]>>
        /\ left = MaxCapacityOps

NextCapacity ==
    \/ \E a \in CapacityCallers, id \in Ids : Join(a, id)
    \/ \E a \in CapacityCallers, id \in Ids : Finalize(a, id)
    \/ \E a \in CapacityCallers, id \in Ids, r \in CapacityCallers : Payout(a, id, r)
    \/ \E a \in CapacityCallers, id \in Ids : Propose(a, id)
    \/ \E a \in CapacityCallers, id \in Ids : Vote(a, id)
    \/ \E a \in CapacityCallers, id \in Ids : Withdraw(a, id)
    \/ \E id \in Ids : Get(id)

SpecCapacity == InitCapacity /\ [][NextCapacity]_vars

\* The walk through one circle: three identities A, B and C and the circle's
\* creator, who is one of them or a fourth identity, call the contract on a
\* circle created with contribution 50 and the join-order queue policy, in
\* runs of as many calls as the walk has.
A == 1
B == 2
C == 3

ScenarioAdmins == {A, B, C, 4}

\* join by A, B and C; finalize; payout to A; votes of A and B; withdrawals
\* of A, B and C
ScenarioCalls ==
    <<"join_circle", "join_circle", "join_circle", "finalize_circle",
      "process_payout", "vote_dissolve", "vote_dissolve",
      "withdraw_pro_rata", "withdraw_pro_rata", "withdraw_pro_rata">>

ScenarioCallers == {A, B, C} \cup {storage.Circle[1].admin}

InitScenario ==
    \E admin \in ScenarioAdmins :
        /\ storage = create_circle(EmptyStorage, admin, 50, FALSE).storage
        /\ payouts = <<[m \in ScenarioAdmins |-> 0]>>
        /\ refunds = <<[m \in ScenarioAdmins |-> <<>>]>>
        /\ left = Len(ScenarioCalls)

NextScenario ==
    \/ \E a \in ScenarioCallers, id \in Ids : Join(a, id)
    \/ \E a \in ScenarioCallers, id \in Ids : Finalize(a, id)
    \/ \E a \in ScenarioCallers, id \in Ids, r \in ScenarioCallers : Payout(a, id, r)
    \/ \E a \in ScenarioCallers, id \in Ids : Propose(a, id)
    \/ \E a \in ScenarioCallers, id \in Ids : Vote(a, id)
    \/ \E a \in ScenarioCallers, id \in Ids : Withdraw(a, id)
    \/ \E id \in Ids : Get(id)

SpecScenario == InitScenario /\ [][NextScenario]_vars

\* ------------------------------------------------------------- vocabulary

CircleIds == DOMAIN storage.Circle

Circle(id) == storage.Circle[id]

Members(id) == {Circle(id).members[i] : i \in 1..Len(Circle(id).members)}

\* how often x occurs in v
Count(v, x) == Cardinality({i \in 1..Len(v) : v[i] = x})

\* v and w hold the same identities, each as often
SameMultiset(v, w) ==
    /\ Len(v) = Len(w)
    /\ \A x \in Addresses : Count(v, x) = Count(w, x)

\* ----------------------------------------------------------------- claims

\* no member is the recipient of more than one successful process_payout, and
\* once a member has been paid every process_payout targeting that member
\* fails, with Unauthorized when the caller is the admin and the circle is
\* not dissolved
PaidAtMostOnce ==
    \A id \in CircleIds : \A m \in Addresses :
        /\ payouts[id][m] <= 1
        /\ payouts[id][m] >= 1 =>
              /\ m \in Members(id)
              /\ Circle(id).has_received_payout[IndexOf(Circle(id).members, m)]
              /\ \A invoker \in Addresses :
                    LET r == process_payout(storage, invoker, id, m) IN
                        /\ r.err # "Ok"
                        /\ r.storage = storage
                        /\ (invoker = Circle(id).admin /\ ~Circle(id).is_dissolved)
                              => r.err = "Unauthorized"

\* no step takes a has_received_payout flag from true back to false
PaidFlagsStay ==
    \A id \in CircleIds :
        \A i \in 1..Len(Circle(id).has_received_payout) :
            Circle(id).has_received_payout[i]
                => /\ i <= Len(storage'.Circle[id].has_received_payout)
                   /\ storage'.Circle[id].has_received_payout[i]

\* C1 (exactly-once payout): for every member at most one process_payout with
\* that recipient succeeds; every later one fails (with Unauthorized when the
\* caller is the admin and the circle is not dissolved); and
\* has_received_payout of a member never goes back from true to false.
C1_ExactlyOncePayout ==
    /\ []PaidAtMostOnce
    /\ [][PaidFlagsStay]_vars

\* a member has been paid and the admin could try again
C1_Witness ==
    \E id \in CircleIds : \E m \in Addresses :
        /\ payouts[id][m] = 1
        /\ ~Circle(id).is_dissolved
        /\ Circle(id).has_received_payout[IndexOf(Circle(id).members, m)]

\* C2: in every reachable state of every circle,
\* total_volume_distributed = current_payout_index * contribution.
C2_VolumeIsIndexTimesContribution ==
    \A id \in CircleIds :
        Circle(id).total_volume_distributed
            = Circle(id).current_payout_index * Circle(id).contribution

\* two payouts of a non-zero contribution have been made
C2_Witness ==
    \E id \in CircleIds :
        /\ Circle(id).current_payout_index = 2
        /\ Circle(id).contribution # 0
        /\ Circle(id).total_volume_distributed = 2 * Circle(id).contribution

\* C3: in every reachable state of every circle, current_payout_index is the
\* number of indices whose has_received_payout flag is true, and so never
\* exceeds the number of members.
C3_IndexCountsPaidFlags ==
    \A id \in CircleIds :
        /\ Circle(id).current_payout_index
              = Cardinality({i \in 1..Len(Circle(id).has_received_payout) :
                                Circle(id).has_received_payout[i]})
        /\ Circle(id).current_payout_index <= Len(Circle(id).members)

\* one member is paid and another, who joined later or not, is not
C3_Witness ==
    \E id \in CircleIds :
        /\ Circle(id).current_payout_index = 1
        /\ Len(Circle(id).members) = 2
        /\ \E i \in 1..2 : ~Circle(id).has_received_payout[i]

\* C4 as stated: after every committed operation payout_queue is empty or a
\* permutation of the current members, of the same length.
C4_QueuePermutesCurrentMembers ==
    \A id \in CircleIds :
        \/ Circle(id).payout_queue = <<>>
        \/ SameMultiset(Circle(id).payout_queue, Circle(id).members)

\* C4 (amended): after every committed operation payout_queue is empty or a
\* permutation of the members that had joined when finalize ran, which are
\* the first Len(payout_queue) entries of members; it is as long as members
\* only while nobody has joined since.
C4_QueuePermutesMembersAtFinalize ==
    \A id \in CircleIds :
        \/ Circle(id).payout_queue = <<>>
        \/ /\ Len(Circle(id).payout_queue) <= Len(Circle(id).members)
           /\ SameMultiset(Circle(id).payout_queue,
                           SubSeq(Circle(id).members, 1,
                                  Len(Circle(id).payout_queue)))

\* a member joined after the queue was set
C4_Witness ==
    \E id \in CircleIds :
        /\ Circle(id).payout_queue # <<>>
        /\ Len(Circle(id).members) > Len(Circle(id).payout_queue)

\* C5: when the admin calls finalize on a circle that is not dissolved and
\* whose payout_queue is empty, the call succeeds and the resulting
\* payout_queue holds the same multiset of identities as members, under both
\* policies and whatever the shuffle produces; with is_random_queue false it
\* is members itself, in join order.
C5_FinalizeQueuesTheMembers ==
    \A id \in CircleIds :
        (~Circle(id).is_dissolved /\ Circle(id).payout_queue = <<>>) =>
            \A shuffled \in Shuffles(Circle(id).members) :
                LET r == finalize_circle(storage, Circle(id).admin, id, shuffled)
                    queue == r.storage.Circle[id].payout_queue
                IN /\ r.err = "Ok"
                   /\ SameMultiset(queue, Circle(id).members)
                   /\ r.storage.Circle[id].members = Circle(id).members
                   /\ ~Circle(id).is_random_queue => queue = Circle(id).members

\* a random-policy circle whose queue came out in another order than members
C5_Witness ==
    \E id \in CircleIds :
        /\ Circle(id).is_random_queue
        /\ Len(Circle(id).payout_queue) = 2
        /\ SameMultiset(Circle(id).payout_queue, Circle(id).members)
        /\ Circle(id).payout_queue # Circle(id).members

\* finalize by the admin on the circle as it stands returns Ok and writes
\* nothing, whatever the shuffle would produce
FurtherFinalizeIsNoOp(id) ==
    \A shuffled \in Shuffles(Circle(id).members) :
        LET r == finalize_circle(storage, Circle(id).admin, id, shuffled) IN
            r.err = "Ok" /\ r.storage = storage

\* finalize by the admin on the circle as it stands fails with AlreadyDissolved
\* and writes nothing
FurtherFinalizeIsRefused(id) ==
    \A shuffled \in Shuffles(Circle(id).members) :
        LET r == finalize_circle(storage, Circle(id).admin, id, shuffled) IN
            r.err = "AlreadyDissolved" /\ r.storage = storage

QueueSet(id) == Circle(id).payout_queue # <<>>

\* no step changes a payout_queue that is set
QueueFrozen ==
    \A id \in CircleIds :
        QueueSet(id) => storage'.Circle[id].payout_queue = Circle(id).payout_queue

\* C6 as stated: once payout_queue is non-empty no later operation changes it,
\* and a further finalize by the admin succeeds without mutating anything.
C6_FinalizeIdempotent ==
    /\ [](\A id \in CircleIds : QueueSet(id) => FurtherFinalizeIsNoOp(id))
    /\ [][QueueFrozen]_vars

\* C6 (amended): once payout_queue is non-empty no later operation changes it,
\* members who join afterwards included; a further finalize by the admin
\* succeeds without mutating anything while the circle is not dissolved, and
\* fails with AlreadyDissolved, also without mutating anything, once it is.
C6_FinalizeIdempotentUntilDissolved ==
    /\ [](\A id \in CircleIds :
             QueueSet(id) => IF Circle(id).is_dissolved
                             THEN FurtherFinalizeIsRefused(id)
                             ELSE FurtherFinalizeIsNoOp(id))
    /\ [][QueueFrozen]_vars

\* a finalized random-policy circle that a member joined afterwards
C6_Witness ==
    \E id \in CircleIds :
        /\ Circle(id).is_random_queue
        /\ Len(Circle(id).payout_queue) = 1
        /\ Len(Circle(id).members) = 2
        /\ ~Circle(id).is_dissolved

\* no call of an operation other than vote_dissolve, whatever its invoker,
\* arguments and shuffle, changes is_dissolved of circle id
OnlyVoteDissolves(id) ==
    LET Kept(st) == st.Circle[id].is_dissolved = Circle(id).is_dissolved IN
    \A a \in Addresses :
        /\ \A c \in Contributions, q \in BOOLEAN :
              Kept(create_circle(storage, a, c, q).storage)
        /\ \A k \in Ids :
              /\ Kept(join_circle(storage, a, k).storage)
              /\ \A sh \in (IF HasCircle(storage, k)
                            THEN Shuffles(Circle(k).members)
                            ELSE {<<>>}) :
                    Kept(finalize_circle(storage, a, k, sh).storage)
              /\ \A m \in Addresses :
                    Kept(process_payout(storage, a, k, m).storage)
              /\ Kept(propose_dissolution(storage, a, k).storage)
              /\ Kept(withdraw_pro_rata(storage, a, k).storage)
              /\ Kept(get_circle(storage, k).storage)

\* C7: a successful vote_dissolve appends the caller, a member, to
\* dissolution_votes and sets is_dissolved exactly when, with that vote
\* counted, |dissolution_votes| * 2 > |members| (a tie does not dissolve);
\* no call of any other operation changes is_dissolved of any circle.
C7_VoteDissolvesOnStrictMajority ==
    \A id \in CircleIds :
        /\ \A a \in Addresses :
              LET r == vote_dissolve(storage, a, id)
                  after == r.storage.Circle[id]
              IN r.err = "Ok" =>
                    /\ a \in Members(id)
                    /\ after.dissolution_votes
                          = Append(Circle(id).dissolution_votes, a)
                    /\ after.members = Circle(id).members
                    /\ after.is_dissolved
                          <=> Len(after.dissolution_votes) * 2 > Len(after.members)
        /\ OnlyVoteDissolves(id)

\* two members: the first vote, a tie, left the circle open and the second
\* dissolved it
C7_Witness ==
    \E id \in CircleIds :
        /\ Circle(id).is_dissolved
        /\ Len(Circle(id).members) = 2
        /\ Len(Circle(id).dissolution_votes) = 2

\* C8 as stated: in every reachable state is_dissolved is true if and only if
\* |dissolution_votes| * 2 > |members|.
C8_DissolvedIffMajority ==
    \A id \in CircleIds :
        Circle(id).is_dissolved
            <=> Len(Circle(id).dissolution_votes) * 2 > Len(Circle(id).members)

\* C8 (amended): in every reachable state is_dissolved implies
\* |dissolution_votes| * 2 > |members|; the converse does not hold, because
\* propose_dissolution adds votes without the majority check.
C8_DissolvedOnlyWithMajority ==
    \A id \in CircleIds :
        Circle(id).is_dissolved
            => Len(Circle(id).dissolution_votes) * 2 > Len(Circle(id).members)

\* a dissolved circle of two members, both of whom voted
C8_Witness ==
    \E id \in CircleIds :
        /\ Circle(id).is_dissolved
        /\ Len(Circle(id).members) = 2
        /\ Members(id) = Addresses
        /\ Circle(id).current_payout_index = 0

\* on a dissolved circle every join, finalize, process_payout,
\* propose_dissolution and vote_dissolve call fails
DissolvedRefusesCalls(id) ==
    \A a \in Addresses :
        /\ join_circle(storage, a, id).err # "Ok"
        /\ \A sh \in Shuffles(Circle(id).members) :
              finalize_circle(storage, a, id, sh).err # "Ok"
        /\ \A m \in Addresses : process_payout(storage, a, id, m).err # "Ok"
        /\ propose_dissolution(storage, a, id).err # "Ok"
        /\ vote_dissolve(storage, a, id).err # "Ok"

\* a dissolved circle stays dissolved and no step changes a field of its
\* record other than contributions_paid
DissolvedFrozen ==
    \A id \in CircleIds :
        Circle(id).is_dissolved =>
            /\ storage'.Circle[id].is_dissolved
            /\ storage'.Circle[id]
                  = [Circle(id) EXCEPT
                        !.contributions_paid =
                            storage'.Circle[id].contributions_paid]

\* C9 (dissolution is terminal): once is_dissolved is true it stays true, every
\* join, finalize, process_payout, propose_dissolution and vote_dissolve call
\* on the circle fails, and no step changes any field of the record other
\* than contributions_paid.
C9_DissolutionIsTerminal ==
    /\ [](\A id \in CircleIds :
             Circle(id).is_dissolved => DissolvedRefusesCalls(id))
    /\ [][DissolvedFrozen]_vars

\* a dissolved circle in which a withdrawal has zeroed a stake, with a
\* non-member left who could try to join
C9_Witness ==
    \E id \in CircleIds :
        /\ Circle(id).is_dissolved
        /\ Len(Circle(id).members) = 1
        /\ Circle(id).contribution > 0
        /\ Circle(id).contributions_paid = <<0>>

\* C10 (pro-rata correctness): in a dissolved circle with contribution c > 0,
\* the first withdraw_pro_rata by a member who never received a payout
\* returns c and zeroes that member's contributions_paid; by a member who
\* received a payout it returns 0; every second or later withdraw_pro_rata by
\* the same member returns 0 and leaves the storage unchanged.  Stated of the
\* next call in every reachable state and of the amounts returned so far.
C10_ProRataRefunds ==
    \A id \in CircleIds :
        (Circle(id).is_dissolved /\ Circle(id).contribution > 0) =>
            \A i \in 1..Len(Circle(id).members) :
                LET m == Circle(id).members[i]
                    c == Circle(id).contribution
                    paid == Circle(id).has_received_payout[i]
                    r == withdraw_pro_rata(storage, m, id)
                    returned == refunds[id][m]
                IN /\ r.err = "Ok"
                   /\ (returned = <<>> /\ ~paid) =>
                         /\ r.ret = <<c>>
                         /\ r.storage.Circle[id]
                               = [Circle(id) EXCEPT !.contributions_paid[i] = 0]
                   /\ paid => r.ret = <<0>> /\ r.storage = storage
                   /\ returned # <<>> => r.ret = <<0>> /\ r.storage = storage
                   /\ returned # <<>> =>
                         /\ returned[1] = IF paid THEN 0 ELSE c
                         /\ \A k \in 2..Len(returned) : returned[k] = 0

\* an unpaid member withdrew c and then 0, and a paid member withdrew 0
C10_Witness ==
    \E id \in CircleIds :
        /\ Circle(id).is_dissolved
        /\ Circle(id).contribution = 2
        /\ \E m \in Addresses : refunds[id][m] = <<2, 0>>

Errors ==
    {"CircleNotFound", "Unauthorized", "AlreadyJoined", "MaxMembersReached",
     "AlreadyVoted", "NotMember", "AlreadyDissolved", "NotDissolved"}

\* a call that ended in an error ended in one of the contract's error kinds
\* and left the storage as it was
Atomic(r) == r.err # "Ok" => r.err \in Errors /\ r.storage = storage

\* the shuffles finalize_circle can draw on circle k
ShufflesOf(k) ==
    IF HasCircle(storage, k) THEN Shuffles(Circle(k).members) ELSE {<<>>}

\* every call the contract can receive in the current state, whatever its
\* invoker, arguments and shuffle, is atomic
CallsAreAtomic ==
    \A a \in Addresses :
        /\ \A c \in Contributions, q \in BOOLEAN :
              Atomic(create_circle(storage, a, c, q))
        /\ \A k \in Ids :
              /\ Atomic(join_circle(storage, a, k))
              /\ \A sh \in ShufflesOf(k) :
                    Atomic(finalize_circle(storage, a, k, sh))
              /\ \A m \in Addresses : Atomic(process_payout(storage, a, k, m))
              /\ Atomic(propose_dissolution(storage, a, k))
              /\ Atomic(vote_dissolve(storage, a, k))
              /\ Atomic(withdraw_pro_rata(storage, a, k))
              /\ Atomic(get_circle(storage, k))

\* C11 (failure atomicity): in every reachable state, every call that ends in
\* an error leaves the id counter and every circle record exactly as they
\* were before the call; no field is partially updated.
C11_FailedCallsWriteNothing == []CallsAreAtomic

\* one state in which calls fail with six of the error kinds: a member who
\* has voted, on a circle that is not dissolved, next to a missing circle
C11_Witness ==
    \E a \in Addresses, b \in Addresses, id \in CircleIds :
        /\ get_circle(storage, storage.CircleCount + 1).err = "CircleNotFound"
        /\ join_circle(storage, a, id).err = "AlreadyJoined"
        /\ vote_dissolve(storage, a, id).err = "AlreadyVoted"
        /\ withdraw_pro_rata(storage, a, id).err = "NotDissolved"
        /\ propose_dissolution(storage, b, id).err = "NotMember"
        /\ process_payout(storage, b, id, a).err = "Unauthorized"

\* no identity occurs twice in v
NoDuplicates(v) == \A i, j \in 1..Len(v) : v[i] = v[j] => i = j

\* C12 (structural invariants): in every reachable state of every circle,
\* |members| = |has_received_payout| = |contributions_paid|, |members| is at
\* most MAX_MEMBERS, no identity occurs twice in members (a join by a member
\* fails and leaves members unchanged) or in dissolution_votes, and every
\* identity in dissolution_votes is a member.
C12_StructuralInvariants ==
    \A id \in CircleIds :
        /\ Len(Circle(id).members) = Len(Circle(id).has_received_payout)
        /\ Len(Circle(id).members) = Len(Circle(id).contributions_paid)
        /\ Len(Circle(id).members) <= MAX_MEMBERS
        /\ NoDuplicates(Circle(id).members)
        /\ NoDuplicates(Circle(id).dissolution_votes)
        /\ \A i \in 1..Len(Circle(id).dissolution_votes) :
              Contains(Circle(id).members, Circle(id).dissolution_votes[i])
        /\ \A m \in Members(id) :
              LET r == join_circle(storage, m, id) IN
                  /\ r.err = IF Circle(id).is_dissolved
                             THEN "AlreadyDissolved"
                             ELSE "AlreadyJoined"
                  /\ r.storage.Circle[id].members = Circle(id).members

\* two members, both recorded in dissolution_votes, on a circle still open to
\* joins and votes
C12_Witness ==
    \E id \in CircleIds :
        /\ ~Circle(id).is_dissolved
        /\ Len(Circle(id).members) = 2
        /\ Len(Circle(id).dissolution_votes) = 2
        /\ \A m \in Members(id) : join_circle(storage, m, id).err = "AlreadyJoined"

\* C13 as stated: a join on a circle that has MAX_MEMBERS members fails with
\* MaxMembersReached whatever the caller and the rest of the circle's state,
\* and a join by a non-member on a circle with MAX_MEMBERS - 1 members
\* succeeds.
C13_CapacityWhateverTheState ==
    \A id \in CircleIds : \A a \in Identities :
        /\ Len(Circle(id).members) = MAX_MEMBERS
              => join_circle(storage, a, id).err = "MaxMembersReached"
        /\ (Len(Circle(id).members) = MAX_MEMBERS - 1 /\ a \notin Members(id))
              => join_circle(storage, a, id).err = "Ok"

\* C13 (amended): on a circle that is not dissolved, a join by a non-member
\* fails with MaxMembersReached, writing nothing, when the circle has
\* MAX_MEMBERS members, and succeeds, making the caller the last member, when
\* it has MAX_MEMBERS - 1.  The checks that come first decide the other
\* cases: on a dissolved circle the join fails with AlreadyDissolved and by a
\* member with AlreadyJoined, whatever the number of members, which never
\* exceeds MAX_MEMBERS.
C13_Capacity ==
    \A id \in CircleIds :
        /\ Len(Circle(id).members) <= MAX_MEMBERS
        /\ \A a \in Identities :
              LET r == join_circle(storage, a, id)
                  full == Len(Circle(id).members) = MAX_MEMBERS
              IN /\ r.err = IF Circle(id).is_dissolved THEN "AlreadyDissolved"
                            ELSE IF a \in Members(id) THEN "AlreadyJoined"
                            ELSE IF full THEN "MaxMembersReached"
                            ELSE "Ok"
                 /\ r.err # "Ok" => r.storage = storage
                 /\ r.err = "Ok" =>
                       /\ r.storage.Circle[id].members
                             = Append(Circle(id).members, a)
                       /\ Len(r.storage.Circle[id].members) <= MAX_MEMBERS

\* the last free place has been taken by a join and an identity is left
\* outside the circle, which is not dissolved
C13_Witness ==
    \E id \in CircleIds :
        /\ Len(Circle(id).members) = MAX_MEMBERS
        /\ Circle(id).members[MAX_MEMBERS] \in Addresses
        /\ ~Circle(id).is_dissolved
        /\ \E a \in Addresses : a \notin Members(id)

\* the ids handed out so far are 1..CircleCount, and a create_circle call,
\* whatever its invoker and arguments, succeeds, returns CircleCount + 1,
\* leaves every existing record as it is and stores a new record with the
\* caller as admin, the arguments given and everything else empty or zero
CreateTakesNextId ==
    /\ CircleIds = 1..storage.CircleCount
    /\ \A a \in Addresses, c \in Contributions, q \in BOOLEAN :
          LET r == create_circle(storage, a, c, q)
              id == storage.CircleCount + 1
          IN /\ r.err = "Ok"
             /\ r.ret = <<id>>
             /\ r.storage.CircleCount = id
             /\ DOMAIN r.storage.Circle = CircleIds \cup {id}
             /\ \A k \in CircleIds : r.storage.Circle[k] = Circle(k)
             /\ r.storage.Circle[id]
                   = [admin |-> a,
                      contribution |-> c,
                      members |-> <<>>,
                      is_random_queue |-> q,
                      payout_queue |-> <<>>,
                      has_received_payout |-> <<>>,
                      cycle_number |-> 1,
                      current_payout_index |-> 0,
                      total_volume_distributed |-> 0,
                      is_dissolved |-> FALSE,
                      dissolution_votes |-> <<>>,
                      contributions_paid |-> <<>>]

\* no step lowers the id counter or drops an id, and a step that raises the
\* counter raises it by one
IdsOnlyGrow ==
    /\ storage'.CircleCount \in {storage.CircleCount, storage.CircleCount + 1}
    /\ CircleIds \subseteq DOMAIN storage'.Circle

\* C14 (registry identifiers): the k-th successful create_circle call returns
\* id k (the first id is 1); ids are strictly increasing and never reused;
\* create_circle never overwrites or alters an existing record; the new
\* circle starts with empty members, payout_queue and dissolution_votes,
\* cycle_number 1, current_payout_index 0, total_volume_distributed 0 and
\* is_dissolved false.
C14_RegistryIds ==
    /\ []CreateTakesNextId
    /\ [][IdsOnlyGrow]_vars

\* a second circle was created next to a first one that has a member
C14_Witness ==
    /\ storage.CircleCount = 2
    /\ CircleIds = {1, 2}
    /\ Circle(1).members # <<>>
    /\ Circle(2).members = <<>>

\* circle 1 is as create_circle(contribution = 50, random = false) leaves it
Fresh ==
    storage = create_circle(EmptyStorage, Circle(1).admin, 50, FALSE).storage

\* the calls of the walk, made one after the other from storage f by the
\* identities the walk names (payouts by the admin), end as the walk says
WalkFrom(f) ==
    LET admin == f.Circle[1].admin
        j1 == join_circle(f, A, 1)
        j2 == join_circle(j1.storage, B, 1)
        j3 == join_circle(j2.storage, C, 1)
        fin == finalize_circle(j3.storage, admin, 1, <<>>)
        p1 == process_payout(fin.storage, admin, 1, A)
        p2 == process_payout(p1.storage, admin, 1, A)
        v1 == vote_dissolve(p2.storage, A, 1)
        v2 == vote_dissolve(v1.storage, B, 1)
        w1 == withdraw_pro_rata(v2.storage, A, 1)
        w2 == withdraw_pro_rata(w1.storage, B, 1)
        w3 == withdraw_pro_rata(w2.storage, C, 1)
    IN /\ j1.err = "Ok" /\ j2.err = "Ok" /\ j3.err = "Ok"
       /\ j3.storage.Circle[1].members = <<A, B, C>>
       /\ fin.err = "Ok"
       /\ fin.storage.Circle[1].payout_queue = <<A, B, C>>
       /\ p1.err = "Ok"
       /\ p2.err = "Unauthorized"
       /\ v1.err = "Ok"
       /\ ~v1.storage.Circle[1].is_dissolved
       /\ v2.err = "Ok"
       /\ v2.storage.Circle[1].is_dissolved
       /\ w1.err = "Ok" /\ w1.ret = <<0>>
       /\ w2.err = "Ok" /\ w2.ret = <<50>>
       /\ w3.err = "Ok" /\ w3.ret = <<50>>

\* the circle has been through the calls of the walk: A, B and C joined in
\* that order, the queue was set once they had, A and nobody else was paid,
\* A and B and nobody else voted, and each of the three has withdrawn
Walked ==
    /\ Circle(1).members = <<A, B, C>>
    /\ Len(Circle(1).payout_queue) = Len(Circle(1).members)
    /\ payouts[1][A] = 1 /\ payouts[1][B] = 0 /\ payouts[1][C] = 0
    /\ Circle(1).dissolution_votes = <<A, B>>
    /\ \A m \in {A, B, C} : refunds[1][m] # <<>>

\* C15 (end-to-end scenario): create(contribution = 50, random = false); join
\* by A, B, C; finalize gives payout_queue = [A, B, C]; process_payout(A)
\* succeeds; a second process_payout(A) fails with Unauthorized; vote_dissolve
\* by A leaves the circle not dissolved and vote_dissolve by B makes it
\* dissolved; then withdraw_pro_rata returns 0 for A, 50 for B and 50 for C.
\* Stated of the calls made from the fresh circle, and of every run that has
\* been through them, in whatever order they came.
C15_EndToEndScenario ==
    /\ Fresh => WalkFrom(storage)
    /\ Walked =>
          /\ Circle(1).payout_queue = <<A, B, C>>
          /\ Circle(1).is_dissolved
          /\ process_payout(storage, Circle(1).admin, 1, A).err # "Ok"
          /\ refunds[1][A][1] = 0
          /\ refunds[1][B][1] = 50
          /\ refunds[1][C][1] = 50

\* the end of the walk: A was paid and withdrew 0, B and C withdrew 50 each
C15_Witness ==
    /\ Walked
    /\ Circle(1).is_dissolved
    /\ Circle(1).has_received_payout = <<TRUE, FALSE, FALSE>>
    /\ Circle(1).contributions_paid = <<50, 0, 0>>
    /\ refunds[1][A] = <<0>>
    /\ refunds[1][B] = <<50>>
    /\ refunds[1][C] = <<50>>

RECURSIVE GovernanceDissolves(_, _, _)
\* from storage st, at most n calls of vote_dissolve by members, each
\* preceded by a join when no member is left who can vote, dissolve circle
\* id.  A vote that succeeds is taken before a join; when neither a vote nor
\* a join by any identity succeeds, no call changes members or
\* dissolution_votes any more and the circle stays as it is.
GovernanceDissolves(st, id, n) ==
    IF st.Circle[id].is_dissolved THEN TRUE
    ELSE IF n = 0 THEN FALSE
    ELSE LET voters == {a \in Identities : vote_dissolve(st, a, id).err = "Ok"}
             joiners == {a \in Identities : join_circle(st, a, id).err = "Ok"}
         IN IF voters # {}
            THEN GovernanceDissolves(
                     vote_dissolve(st, CHOOSE a \in voters : TRUE, id).storage,
                     id, n - 1)
            ELSE IF joiners # {}
            THEN GovernanceDissolves(
                     join_circle(st, CHOOSE a \in joiners : TRUE, id).storage,
                     id, n - 1)
            ELSE FALSE

\* C16 (dissolution reachability) as stated: from every reachable
\* non-dissolved state of a circle some sequence of governance operations by
\* members, possibly preceded by joins, leads to is_dissolved = true; no
\* reachable non-dissolved state has every member in dissolution_votes and no
\* way left to dissolve the circle.
C16_DissolutionReachable ==
    \A id \in CircleIds :
        ~Circle(id).is_dissolved
            => GovernanceDissolves(storage, id, 2 * MAX_MEMBERS)

\* the two counters of circle id in storage st
Counters(st, id) ==
    <<st.Circle[id].current_payout_index, st.Circle[id].total_volume_distributed>>

\* a successful process_payout raises current_payout_index by 1 and
\* total_volume_distributed by contribution, and no call of any other
\* operation, whatever its invoker, arguments and shuffle, changes either
PayoutAloneCounts ==
    \A id \in CircleIds : \A a \in Addresses :
        LET Kept(st) == Counters(st, id) = Counters(storage, id) IN
        /\ \A k \in Ids, m \in Addresses :
              LET r == process_payout(storage, a, k, m) IN
                  IF r.err = "Ok" /\ k = id
                  THEN Counters(r.storage, id)
                          = <<Circle(id).current_payout_index + 1,
                              Circle(id).total_volume_distributed
                                  + Circle(id).contribution>>
                  ELSE Kept(r.storage)
        /\ \A c \in Contributions, q \in BOOLEAN :
              Kept(create_circle(storage, a, c, q).storage)
        /\ \A k \in Ids :
              /\ Kept(join_circle(storage, a, k).storage)
              /\ \A sh \in ShufflesOf(k) :
                    Kept(finalize_circle(storage, a, k, sh).storage)
              /\ Kept(propose_dissolution(storage, a, k).storage)
              /\ Kept(vote_dissolve(storage, a, k).storage)
              /\ Kept(withdraw_pro_rata(storage, a, k).storage)
              /\ Kept(get_circle(storage, k).storage)

\* no step lowers current_payout_index or total_volume_distributed
CountersNeverDecrease ==
    \A id \in CircleIds :
        /\ storage'.Circle[id].current_payout_index
              >= Circle(id).current_payout_index
        /\ storage'.Circle[id].total_volume_distributed
              >= Circle(id).total_volume_distributed

\* C17 (monotonic counters) as stated: across every step of every operation
\* sequence, for every contribution value that create_circle accepts,
\* current_payout_index never decreases and total_volume_distributed never
\* decreases; each successful process_payout raises current_payout_index by
\* exactly 1 and total_volume_distributed by exactly contribution, and no
\* other operation changes either field.
C17_MonotonicCounters ==
    /\ []PayoutAloneCounts
    /\ [][CountersNeverDecrease]_vars

\* queues circle id could hold instead of its own: none, its members in join
\* order, and a single identity
OtherQueues(id) ==
    {<<>>, Circle(id).members} \cup {<<m>> : m \in Addresses}

\* on a circle that is not dissolved, process_payout by the admin to any
\* member whose has_received_payout flag is false succeeds, whatever
\* payout_queue holds; no process_payout call changes payout_queue; and with
\* any other queue in the record every process_payout call ends in the same
\* error and writes the same fields
PayoutIgnoresQueue ==
    \A id \in CircleIds :
        /\ ~Circle(id).is_dissolved =>
              \A i \in 1..Len(Circle(id).members) :
                  ~Circle(id).has_received_payout[i] =>
                      process_payout(storage, Circle(id).admin, id,
                                     Circle(id).members[i]).err = "Ok"
        /\ \A a \in Addresses, m \in Addresses :
              LET r == process_payout(storage, a, id, m) IN
                  /\ r.storage.Circle[id].payout_queue = Circle(id).payout_queue
                  /\ \A queue \in OtherQueues(id) :
                        LET other == write_circle(storage, id,
                                         [Circle(id) EXCEPT !.payout_queue = queue])
                            ro == process_payout(other, a, id, m)
                        IN /\ ro.err = r.err
                           /\ ro.storage.Circle[id]
                                 = [r.storage.Circle[id] EXCEPT
                                       !.payout_queue = queue]

\* C18 (payout order is advisory): on a non-dissolved circle, process_payout
\* called by the admin for any member whose has_received_payout flag is
\* false succeeds regardless of payout_queue, whether the queue is still
\* empty, the recipient is not at position current_payout_index of it, or the
\* recipient joined after finalization and is not in it at all;
\* process_payout never reads or modifies payout_queue.
C18_PayoutOrderIsAdvisory == []PayoutIgnoresQueue

\* the one member in the queue is unpaid, and a member who joined after the
\* queue was set, and is not in it, has been paid
C18_Witness ==
    \E id \in CircleIds :
        /\ Len(Circle(id).payout_queue) = 1
        /\ Len(Circle(id).members) = 2
        /\ Circle(id).has_received_payout = <<FALSE, TRUE>>
        /\ payouts[id][Circle(id).members[2]] = 1
        /\ Circle(id).payout_queue[1] = Circle(id).members[1]

\* v is the beginning of w
IsPrefix(v, w) == Len(v) <= Len(w) /\ SubSeq(w, 1, Len(v)) = v

\* the fields of a record that are fixed when the circle is created
Parameters(circle) ==
    <<circle.admin, circle.contribution, circle.is_random_queue,
      circle.cycle_number>>

\* the call with outcome r, addressed to circle k, left every other circle's
\* record, the parameters of every circle and, unless `joiner` is given, the
\* members of every circle as they were
Framed(r, k, joiner) ==
    \A id \in CircleIds :
        LET after == r.storage.Circle[id] IN
            /\ id # k => after = Circle(id)
            /\ Parameters(after) = Parameters(Circle(id))
            /\ after.members = IF id = k /\ joiner # <<>> /\ r.err = "Ok"
                               THEN Circle(id).members \o joiner
                               ELSE Circle(id).members

\* every call the contract can receive in the current state, whatever its
\* invoker, arguments and shuffle, is framed: only a successful join_circle
\* changes members, by appending its caller, and get_circle changes nothing
\* and returns the record
CallsAreFramed ==
    /\ \A id \in CircleIds : Circle(id).cycle_number = 1
    /\ \A a \in Addresses :
          /\ \A c \in Contributions, q \in BOOLEAN :
                Framed(create_circle(storage, a, c, q), 0, <<>>)
          /\ \A k \in Ids :
                /\ Framed(join_circle(storage, a, k), k, <<a>>)
                /\ \A sh \in ShufflesOf(k) :
                      Framed(finalize_circle(storage, a, k, sh), k, <<>>)
                /\ \A m \in Addresses :
                      Framed(process_payout(storage, a, k, m), k, <<>>)
                /\ Framed(propose_dissolution(storage, a, k), k, <<>>)
                /\ Framed(vote_dissolve(storage, a, k), k, <<>>)
                /\ Framed(withdraw_pro_rata(storage, a, k), k, <<>>)
    /\ \A k \in Ids :
          LET r == get_circle(storage, k) IN
              /\ r.storage = storage
              /\ r.err = "Ok" => r.ret = <<Circle(k)>>

\* a step keeps the parameters of every circle, leaves its members as the
\* beginning of the new members, and changes the record of one circle at most
FramedStep ==
    /\ \A id \in CircleIds :
          /\ Parameters(storage'.Circle[id]) = Parameters(Circle(id))
          /\ IsPrefix(Circle(id).members, storage'.Circle[id].members)
          /\ Len(storage'.Circle[id].members) <= Len(Circle(id).members) + 1
    /\ Cardinality({id \in CircleIds : storage'.Circle[id] # Circle(id)}) <= 1

\* C19 (frame conditions): no operation ever changes a circle's admin,
\* contribution, is_random_queue or cycle_number (which stays 1); members is
\* append-only: each operation leaves the previous sequence as a prefix and
\* only a successful join appends exactly the caller; an operation addressed
\* to circle i leaves every other circle's record unchanged; get_circle
\* changes nothing.
C19_FrameConditions ==
    /\ []CallsAreFramed
    /\ [][FramedStep]_vars

\* two circles, the first with a member, the second without
C19_Witness ==
    /\ CircleIds = {1, 2}
    /\ Len(Circle(1).members) = 1
    /\ Circle(2).members = <<>>
    /\ \E a \in Addresses : join_circle(storage, a, 2).err = "Ok"

RECURSIVE Sum(_)
\* the sum of a sequence of amounts
Sum(v) == IF v = <<>> THEN 0 ELSE v[1] + Sum(Tail(v))

RECURSIVE SumOver(_, _)
\* the sum of f[x] over the x in set
SumOver(f, set) ==
    IF set = {} THEN 0
    ELSE LET x == CHOOSE y \in set : TRUE IN f[x] + SumOver(f, set \ {x})

\* everything withdraw_pro_rata has returned to the members of circle id
Refunded(id) ==
    SumOver([m \in DOMAIN refunds[id] |-> Sum(refunds[id][m])], DOMAIN refunds[id])

\* with contribution >= 0: withdraw_pro_rata has not returned and does not
\* return a negative amount, a member who received a payout has not withdrawn
\* and does not withdraw a positive one, and total_volume_distributed plus
\* the amounts returned does not exceed contribution * |members|
NoneCompensatedTwice(id) ==
    Circle(id).contribution >= 0 =>
        /\ \A i \in 1..Len(Circle(id).members) :
              LET m == Circle(id).members[i]
                  r == withdraw_pro_rata(storage, m, id)
                  returned == refunds[id][m]
              IN /\ r.err = "Ok" => r.ret[1] >= 0
                 /\ \A k \in 1..Len(returned) : returned[k] >= 0
                 /\ Circle(id).has_received_payout[i] =>
                       /\ r.err = "Ok" => r.ret[1] <= 0
                       /\ \A k \in 1..Len(returned) : returned[k] <= 0
        /\ Circle(id).total_volume_distributed + Refunded(id)
              <= Circle(id).contribution * Len(Circle(id).members)

\* C20 as stated: in every reachable state each contributions_paid[i] is
\* either contribution or 0, and it is 0 only if has_received_payout[i] is
\* false and the circle is dissolved; hence, for contribution >= 0,
\* withdraw_pro_rata never returns a negative amount, a member who received a
\* payout never withdraws a positive refund, and total_volume_distributed
\* plus the sum of all amounts returned by withdraw_pro_rata never exceeds
\* contribution * |members|.
C20_StakeIsContributionOrZero ==
    \A id \in CircleIds :
        /\ \A i \in 1..Len(Circle(id).members) :
              /\ Circle(id).contributions_paid[i] \in {Circle(id).contribution, 0}
              /\ Circle(id).contributions_paid[i] = 0 =>
                    /\ ~Circle(id).has_received_payout[i]
                    /\ Circle(id).is_dissolved
        /\ NoneCompensatedTwice(id)

\* C20 (amended): in every reachable state each contributions_paid[i] is
\* either contribution or 0, and it differs from contribution only if
\* has_received_payout[i] is false, the circle is dissolved and the member
\* has withdrawn; with a contribution of 0 the entry is 0 from the join on.
\* Hence, for contribution >= 0, withdraw_pro_rata never returns a negative
\* amount, a member who received a payout never withdraws a positive refund,
\* and total_volume_distributed plus the sum of all amounts returned by
\* withdraw_pro_rata never exceeds contribution * |members|.
C20_NoDoubleCompensation ==
    \A id \in CircleIds :
        /\ \A i \in 1..Len(Circle(id).members) :
              /\ Circle(id).contributions_paid[i] \in {Circle(id).contribution, 0}
              /\ Circle(id).contributions_paid[i] # Circle(id).contribution =>
                    /\ ~Circle(id).has_received_payout[i]
                    /\ Circle(id).is_dissolved
                    /\ refunds[id][Circle(id).members[i]] # <<>>
        /\ NoneCompensatedTwice(id)

\* one member was paid and the other withdrew the contribution: the total and
\* the refunds together are contribution * |members|
C20_Witness ==
    \E id \in CircleIds :
        /\ Circle(id).contribution > 0
        /\ Len(Circle(id).members) = 2
        /\ Circle(id).current_payout_index = 1
        /\ Circle(id).total_volume_distributed + Refunded(id)
              = Circle(id).contribution * 2
        /\ \E i \in 1..2 : Circle(id).contributions_paid[i] = 0

====
